---- MODULE Spec2Model ----
(***************************************************************************)
(* A model of the tax news crawler: the retry decorator, URL               *)
(* normalisation, tag validation, content extraction, deduplication and    *)
(* the crawl orchestration of news_crawler_agent.py.                       *)
(*                                                                         *)
(* Python strings whose characters matter (tags) are tuples of one-letter  *)
(* strings; strings of which only emptiness matters (title, summary) are   *)
(* TLA+ strings.  The two Chinese tags are written with one atom per       *)
(* character ("li", "fa", "zheng", "ce").                                  *)
(***************************************************************************)
EXTENDS Integers, Sequences, FiniteSets, Bags, TLC

VARIABLES
    \* ---- crawl orchestration (crawl_all / crawl_news / process_news_url)
    pc,          \* position of the crawling thread
    cycle,       \* number of crawl cycles started so far
    sources,     \* the list get_source_list returned for this cycle
    si,          \* index of the source being processed (1-based)
    new_urls,    \* crawl_news: the list check_urls_exist returned
    ui,          \* index of the URL being processed in new_urls
    attempt,     \* extract_news_content: the loop variable
    news_data,   \* process_news_url: what extract_news_content returned
    store,       \* the news table: a bag of rows
    clock,       \* the current day (datetime.now())
    hist,        \* observation record of the current cycle / source / URL
    \* ---- retry_decorator applied to one operation
    r_in,        \* the parameters and the operation's outcomes
    r_out,       \* what the wrapper did
    \* ---- validate_tags applied to one tag list
    t_in,
    t_out,
    \* ---- check_urls_exist applied twice to one URL list
    d_in,        \* the list, the store, the batches whose query raises
    d_out,       \* the two results
    \* ---- normalize_urls applied to one raw entry
    n_in,        \* the entry and the source URL
    n_out,       \* the normalized list
    \* ---- the process: main.py, the scheduler, the signal
    proc

mainVars == <<pc, cycle, sources, si, new_urls, ui, attempt, news_data, store, clock, hist>>
retryVars == <<r_in, r_out>>
tagVars == <<t_in, t_out>>
dedupVars == <<d_in, d_out>>
normVars == <<n_in, n_out>>
callVars == <<dedupVars, normVars>>
vars == <<mainVars, retryVars, tagVars, callVars, proc>>

None == [t |-> "None"]

(***************************************************************************)
(* Bounds of the model.                                                    *)
(***************************************************************************)
MaxTags == 3
MaxRetriesBound == 4
MaxSources == 2
MaxUrls == 2
MaxCycles == 2
MaxDay == 2
MaxRows == 2

(***************************************************************************)
(* Strings as tuples of characters.                                        *)
(***************************************************************************)
Range(s) == {s[i] : i \in 1..Len(s)}

\* str.lower() on the characters that occur in the model
LowerChar(c) ==
    CASE c = "L" -> "l" [] c = "P" -> "p" [] c = "H" -> "h" [] c = "K" -> "k"
      [] c = "I" -> "i" [] c = "C" -> "c" [] c = "A" -> "a" [] c = "U" -> "u"
      [] c = "Y" -> "y" [] c = "T" -> "t"
      [] OTHER -> c

Lower(s) == [i \in 1..Len(s) |-> LowerChar(s[i])]

IsSpace(c) == c = " "

RECURSIVE LStrip(_)
LStrip(s) == IF s # <<>> /\ IsSpace(Head(s)) THEN LStrip(Tail(s)) ELSE s

RECURSIVE RStrip(_)
RStrip(s) ==
    IF s # <<>> /\ IsSpace(s[Len(s)]) THEN RStrip(SubSeq(s, 1, Len(s) - 1)) ELSE s

\* str.strip()
Strip(s) == RStrip(LStrip(s))

\* sep.join(parts)
RECURSIVE Join(_, _)
Join(sep, parts) ==
    IF parts = <<>> THEN <<>>
    ELSE IF Len(parts) = 1 THEN parts[1]
    ELSE parts[1] \o sep \o Join(sep, Tail(parts))

(***************************************************************************)
(* The controlled vocabularies.                                            *)
(***************************************************************************)
Legislation == <<"L", "e", "g", "i", "s", "l", "a", "t", "i", "o", "n">>
Policy == <<"P", "o", "l", "i", "c", "y">>
HKICPA == <<"H", "K", "I", "C", "P", "A">>
ACCA == <<"A", "C", "C", "A">>
LiFa == <<"li", "fa">>
ZhengCe == <<"zheng", "ce">>

EnTags == <<Legislation, Policy, HKICPA, ACCA>>
ZhTags == <<LiFa, ZhengCe, HKICPA, ACCA>>

get_valid_tags_by_language(language) ==
    CASE language = "en" -> EnTags
      [] language = "zh-hk" -> ZhTags
      [] language = "zh" -> ZhTags
      [] OTHER -> ZhTags

\* lines 367-370: the first index of valid_tags whose lower-case form is
\* tag_lower, 0 when there is none
FirstLower(valid_tags, tag_lower) ==
    IF \E i \in 1..Len(valid_tags) : Lower(valid_tags[i]) = tag_lower
    THEN CHOOSE i \in 1..Len(valid_tags) :
             /\ Lower(valid_tags[i]) = tag_lower
             /\ \A j \in 1..(i - 1) : Lower(valid_tags[j]) # tag_lower
    ELSE 0

\* validate_tags, lines 364-374 without the case-insensitive branch
MatchTagExactOnly(tag, valid_tags) ==
    LET tag_clean == Strip(tag)
    IN  IF tag = <<>> THEN <<>>
        ELSE IF tag_clean \in Range(valid_tags) THEN <<tag_clean>>
        ELSE <<>>

\* validate_tags, first loop: the tag appended for one input tag (<<>>: none)
MatchTag(tag, valid_tags) ==
    LET tag_clean == Strip(tag)
        tag_lower == Lower(tag_clean)
        k == FirstLower(valid_tags, tag_lower)
    IN  IF tag = <<>> THEN <<>>
        ELSE IF tag_clean \in Range(valid_tags) THEN <<tag_clean>>
        ELSE IF k # 0 THEN <<valid_tags[k]>>
        ELSE <<>>

RECURSIVE FilterTags(_, _)
FilterTags(tags, valid_tags) ==
    IF tags = <<>> THEN <<>>
    ELSE MatchTag(Head(tags), valid_tags) \o FilterTags(Tail(tags), valid_tags)

\* validate_tags, second loop: drop duplicates, keep the first occurrence
RECURSIVE Unique(_, _)
Unique(seq, seen) ==
    IF seq = <<>> THEN <<>>
    ELSE IF Head(seq) \in seen THEN Unique(Tail(seq), seen)
    ELSE <<Head(seq)>> \o Unique(Tail(seq), seen \cup {Head(seq)})

validate_tags(tags, language) ==
    Unique(FilterTags(tags, get_valid_tags_by_language(language)), {})

(***************************************************************************)
(* validate_tags on one input: the inputs of the check.                    *)
(***************************************************************************)
Unknown == <<"U", "n", "k", "n", "o", "w", "n">>
Padded(s) == <<" ">> \o s \o <<" ">>

TagInputs ==
    Range(EnTags) \cup {Lower(v) : v \in Range(EnTags)}
        \cup {LiFa, ZhengCe, Padded(Lower(Policy)), Padded(Legislation),
              Unknown, <<>>, <<" ">>}

Languages == {"en", "zh-hk", "zh", "fr"}

SeqsUpTo(S, n) == UNION {[1..k -> S] : k \in 0..n}

(***************************************************************************)
(* retry_decorator.  An operation is the sequence of the outcomes of its   *)
(* successive invocations: [kind |-> "ok"], or an exception of a retryable *)
(* kind ("retryable") or of another kind ("other"), each with an identity. *)
(* Sleep times are in hundredths of a second; jitter is random.uniform(0,  *)
(* 0.5) in hundredths.                                                     *)
(***************************************************************************)
\* line 53: the retry budget is used up
ExhaustedLate(retries, max_retries) == retries > max_retries + 1

Exhausted(retries, max_retries) == retries > max_retries

\* line 51 as it would be with a bare "except Exception"
CaughtAny(o) == o.kind # "ok"

\* line 51, "except exceptions": the exception is of a retryable kind
Caught(o) == o.kind = "retryable"

\* random.uniform(0, 0.5), line 58, is 0.5 * random.random() with
\* random.random() < 1: a jitter is a number of hundredths below 50, except
\* LargestJitter, which stands for the largest value drawn, 0.5 - 2^-54
LargestJitter == 50

\* lines 58-59 as they would be if the sleep were the jitter alone
SleepTimeJitterOnly(delay, jitter) == delay * jitter

\* lines 58-59, in hundredths of a second: jitter * delay is exact, and
\* delay + jitter is rounded to the nearest double, which for the largest
\* jitter is 1.5 * delay (2 + (1 - 2^-53) = 3.0 in IEEE doubles)
SleepTime(delay, jitter) ==
    IF jitter = LargestJitter THEN (3 * delay * 100) \div 2
    ELSE delay * 100 + delay * jitter

\* the while loop of wrapper; p holds the decorator's parameters, the
\* operation's outcomes and the jitter drawn before each sleep
RECURSIVE RetryLoop(_, _, _, _, _)
RetryLoop(p, retries, delay, calls, sleeps) ==
    IF retries <= p.max_retries
    THEN LET o == p.outcomes[calls + 1]
         IN  IF o.kind = "ok"
             THEN [status |-> "returned", value |-> o, calls |-> calls + 1,
                   sleeps |-> sleeps]
             ELSE IF ~Caught(o)
             THEN [status |-> "raised", value |-> o, calls |-> calls + 1,
                   sleeps |-> sleeps]
             ELSE IF Exhausted(retries + 1, p.max_retries)
             THEN [status |-> "raised", value |-> o, calls |-> calls + 1,
                   sleeps |-> sleeps]
             ELSE RetryLoop(p, retries + 1, delay * p.backoff_factor, calls + 1,
                            Append(sleeps, SleepTime(delay, p.jitters[calls + 1])))
    ELSE [status |-> "returned", value |-> [kind |-> "none", id |-> 0],
          calls |-> calls, sleeps |-> sleeps]

retry_decorator(p) == RetryLoop(p, 0, p.initial_delay, 0, <<>>)

DefaultMaxRetries == 3
DefaultInitialDelay == 2
DefaultBackoffFactor == 2

Outcomes ==
    {[kind |-> "ok", id |-> 0], [kind |-> "retryable", id |-> 1],
     [kind |-> "retryable", id |-> 2], [kind |-> "other", id |-> 3]}

Jitters == {0, 49, LargestJitter}

RetryInputs ==
    UNION {[max_retries : {n}, initial_delay : {1, DefaultInitialDelay},
            backoff_factor : {DefaultBackoffFactor},
            outcomes : [1..(n + 1) -> Outcomes],
            jitters : [1..(n + 1) -> Jitters]] : n \in 0..MaxRetriesBound}

AllRetryable(outcomes) == \A i \in 1..Len(outcomes) : outcomes[i].kind = "retryable"

(***************************************************************************)
(* URLs.  A URL string is the record of its parts: ws (it starts with      *)
(* white space), scheme, auth (a "//" follows the scheme), netloc and      *)
(* path, the path being the tuple of its pieces ("/a1" is <<"/", "a1">>).  *)
(* The empty string has every part empty.                                  *)
(***************************************************************************)
Url(scheme, auth, netloc, path) ==
    [ws |-> FALSE, scheme |-> scheme, auth |-> auth, netloc |-> netloc, path |-> path]

EmptyStr == Url("", FALSE, "", <<>>)

\* "not url" of Python: the string is empty
IsEmptyStr(url) == url = EmptyStr

\* url.startswith(('http://', 'https://'))
StartsWithHttp(url) == ~url.ws /\ url.scheme \in {"http", "https"} /\ url.auth

\* extract_base_url: f"{parsed.scheme}://{parsed.netloc}"
extract_base_url(url) == Url(url.scheme, TRUE, url.netloc, <<>>)

\* urllib.parse.urljoin(base, url) for a base without a path
urljoin(base, url) ==
    LET scheme == IF url.scheme = "" THEN base.scheme ELSE url.scheme
    IN  IF IsEmptyStr(url) THEN base
        ELSE IF scheme # base.scheme THEN url
        ELSE IF url.netloc # "" THEN Url(scheme, TRUE, url.netloc, url.path)
        ELSE IF url.path = <<>> THEN Url(scheme, TRUE, base.netloc, base.path)
        ELSE IF url.path[1] = "/" THEN Url(scheme, TRUE, base.netloc, url.path)
        ELSE Url(scheme, TRUE, base.netloc, <<"/">> \o url.path)

RECURSIVE normalize_urls(_, _)
normalize_urls(urls, base_url) ==
    IF urls = <<>> THEN <<>>
    ELSE LET url == Head(urls)
             rest == normalize_urls(Tail(urls), base_url)
         IN  IF IsEmptyStr(url) THEN rest
             ELSE IF StartsWithHttp(url) THEN <<url>> \o rest
             ELSE <<urljoin(base_url, url)>> \o rest

\* extract_news_urls: the oracle's answer is a URL list, or it raises
extract_news_urls(answer, source_url) ==
    IF answer.kind = "raise" THEN <<>>
    ELSE normalize_urls(answer.urls, extract_base_url(source_url))

(***************************************************************************)
(* The oracle's parsed result and validate_and_fix_result.  A Python value *)
(* is a record with its type t and its value v.                            *)
(***************************************************************************)
PyStr(s) == [t |-> "str", v |-> s]
PyChars(s) == [t |-> "chars", v |-> s]
PyBool(b) == [t |-> "bool", v |-> b]
PyList(l) == [t |-> "list", v |-> l]
PyInt(n) == [t |-> "int", v |-> n]
Missing == [t |-> "missing", v |-> 0]

\* Python truthiness
Truthy(x) ==
    CASE x.t = "str" -> x.v # ""
      [] x.t = "chars" -> x.v # <<>>
      [] x.t = "bool" -> x.v
      [] x.t = "list" -> x.v # <<>>
      [] x.t = "int" -> x.v # 0
      [] OTHER -> FALSE

\* result.get(key, default)
Get(x, default) == IF x.t = "missing" THEN default ELSE x

\* str(x).lower() in ['true', '1', 'yes'], for the values of the model
CoerceBool(x) ==
    CASE x.t = "bool" -> x.v
      [] x.t = "chars" -> Lower(x.v) \in {<<"t", "r", "u", "e">>, <<"1">>, <<"y", "e", "s">>}
      [] x.t = "int" -> x.v = 1
      [] OTHER -> FALSE

\* lines 396-401: tags becomes a list of tag strings
CoerceTags(x) ==
    CASE x.t = "list" -> x.v
      [] x.t = "chars" -> <<x.v>>
      [] OTHER -> <<>>

validate_and_fix_result(result, language) ==
    [title |-> Get(result.title, PyStr("")),
     summary |-> Get(result.summary, PyStr("")),
     tags |-> validate_tags(CoerceTags(Get(result.tags, PyList(<<>>))), language),
     publish_date |-> Get(result.publish_date, PyStr("")),
     is_relevant |-> CoerceBool(Get(result.is_relevant, PyBool(FALSE)))]

(***************************************************************************)
(* extract_news_content: one pass of the loop body.  resp is what the      *)
(* oracle did in this attempt: tier "primary" (the chain returned result), *)
(* "fallback" (the chain raised, the direct call parsed to result) or      *)
(* "fail" (both raised).                                                   *)
(***************************************************************************)
ExtractMaxRetries == 3

Continue(seconds) == [kind |-> "continue", sleep |-> seconds, value |-> None]
Return(value) == [kind |-> "return", sleep |-> 0, value |-> value]

\* lines 451-458 as they would read with a pause of one second
BothTiersFailedConstantPause(attempt_no) ==
    IF attempt_no < ExtractMaxRetries - 1 THEN Continue(1) ELSE Return(None)

\* lines 451-458 (and 490-497): the fallback raised too
BothTiersFailed(attempt_no) ==
    IF attempt_no < ExtractMaxRetries - 1
    THEN Continue(2 ^ attempt_no)
    ELSE Return(None)

\* lines 423-441 as they would be if the fallback were always requested
RequestsBoth(resp) == <<"primary", "fallback">>

\* lines 423-441: the oracle requests of one attempt; the fallback request
\* is in the handler of the primary path's exception
Requests(resp) ==
    IF resp.tier = "primary" THEN <<"primary">> ELSE <<"primary", "fallback">>

\* lines 460-467 as they would read without the retry
FieldsCheckNoRetry(attempt_no) == Return(None)

\* lines 460-467 as they would be with the pause of lines 451-458
FieldsCheckBackoffPause(attempt_no) ==
    IF attempt_no < ExtractMaxRetries - 1 THEN Continue(2 ^ attempt_no) ELSE Return(None)

\* lines 460-467: a required field is missing
FieldsCheck(attempt_no) ==
    IF attempt_no < ExtractMaxRetries - 1 THEN Continue(1) ELSE Return(None)

\* lines 469-488 without the relevance test
AcceptIgnoringRelevance(result) ==
    IF result.tags = <<>> THEN Return(None)
    ELSE Return([title |-> result.title, summary |-> result.summary,
                 tags |-> result.tags, publish_date |-> result.publish_date])

\* lines 469-488 without the tag test
AcceptIgnoringTags(result) ==
    IF ~result.is_relevant THEN Return(None)
    ELSE Return([title |-> result.title, summary |-> result.summary,
                 tags |-> result.tags, publish_date |-> result.publish_date])

\* lines 469-488: relevance, tags, the returned article
Accept(result) ==
    IF ~result.is_relevant THEN Return(None)
    ELSE IF result.tags = <<>> THEN Return(None)
    ELSE Return([title |-> result.title, summary |-> result.summary,
                 tags |-> result.tags, publish_date |-> result.publish_date])

\* lines 416-499 without the test of the required fields, lines 460-467
AttemptOutcomeAnyFields(resp, attempt_no, language) ==
    IF resp.tier = "fail"
    THEN BothTiersFailed(attempt_no)
    ELSE Accept(validate_and_fix_result(resp.result, language))

\* extract_news_content, lines 416-499: what one attempt of the loop does
AttemptOutcome(resp, attempt_no, language) ==
    IF resp.tier = "fail"
    THEN BothTiersFailed(attempt_no)
    ELSE LET result == validate_and_fix_result(resp.result, language)
         IN  IF ~Truthy(result.title) \/ ~Truthy(result.summary)
             THEN FieldsCheck(attempt_no)
             ELSE Accept(result)

(***************************************************************************)
(* The store: the news table is a bag of rows (the table of this design    *)
(* has no uniqueness constraint of its own).                               *)
(***************************************************************************)
StoredUrls(st) == {row.url : row \in BagToSet(st)}

BatchSize == 50

\* check_urls_exist as it would be with "break" at line 529: the batches
\* after a failed one are not queried
check_urls_exist_break(urls, st, failed) ==
    LET existing_url_set ==
            {urls[i] : i \in {j \in 1..Len(urls) :
                                 /\ \A b \in failed : ((j - 1) \div BatchSize) < b
                                 /\ urls[j] \in StoredUrls(st)}}
        IsNew(u) == u \notin existing_url_set
    IN  SelectSeq(urls, IsNew)

\* check_urls_exist as it would be if only the first batch were queried
check_urls_exist_first_batch(urls, st, failed) ==
    LET existing_url_set ==
            {urls[i] : i \in {j \in 1..Len(urls) :
                                 /\ j <= BatchSize
                                 /\ 0 \notin failed
                                 /\ urls[j] \in StoredUrls(st)}}
        IsNew(u) == u \notin existing_url_set
    IN  SelectSeq(urls, IsNew)

\* check_urls_exist: failed is the set of the batches (0, 1, ...) whose
\* existence query raises
check_urls_exist(urls, st, failed) ==
    LET existing_url_set ==
            {urls[i] : i \in {j \in 1..Len(urls) :
                                 /\ ((j - 1) \div BatchSize) \notin failed
                                 /\ urls[j] \in StoredUrls(st)}}
        IsNew(u) == u \notin existing_url_set
    IN  SelectSeq(urls, IsNew)

Batches(urls) == IF urls = <<>> THEN {} ELSE 0..((Len(urls) - 1) \div BatchSize)

\* datetime.now().strftime("%Y-%m-%d") on day d of the model
DayNames == <<"2026-11-05", "2026-11-06", "2026-11-07", "2026-11-08">>
FormatDate(d) == DayNames[d]

\* save_to_db, lines 542-546, dropping the default
PublishDateAsIs(data, now) == data.publish_date.v

\* save_to_db, lines 542-546: the date that is stored
PublishDate(data, now) ==
    IF ~Truthy(data.publish_date) THEN FormatDate(now) ELSE data.publish_date.v

\* save_to_db, lines 548-559: the row that is inserted
DataRow(data, source, now) ==
    [language |-> source.language,
     source |-> source.source,
     date |-> PublishDate(data, now),
     content |-> data.summary.v,
     url |-> source.url,
     title |-> data.title.v,
     tags |-> Join(<<",", " ">>, data.tags)]

\* process_news_url, lines 582-583: the record passed to save_to_db
SourceWithUrl(source, url) == [source EXCEPT !.url = url]

\* line 582 as it would be with "source_with_url = source": the assignment of
\* line 583 changes the caller's record
CallerSourceAliased(source, url) == [source EXCEPT !.url = url]

\* process_news_url, lines 582-583: the url is assigned in a copy,
\* dict(source), so the record of the caller is as it was
CallerSource(source, url) == source

(***************************************************************************)
(* The environment of a crawl: the source registry, the pages, the oracle. *)
(***************************************************************************)
Site == Url("https", TRUE, "news.example", <<"/">>)
SiteHK == Url("https", TRUE, "news.example", <<"/", "hk", "/">>)
SiteTax == Url("http", TRUE, "tax.example", <<"/">>)

Registry(i) ==
    CASE i = 1 -> [url |-> Site, language |-> "en", source |-> "A", info |-> ""]
      [] i = 2 -> [url |-> SiteHK, language |-> "zh-hk", source |-> "B", info |-> ""]
      [] OTHER -> [url |-> SiteTax, language |-> "zh", source |-> "C", info |-> ""]

SourceLists == {[i \in 1..n |-> Registry(i)] : n \in 0..MaxSources}

A1 == Url("https", TRUE, "news.example", <<"/", "a1">>)
A2 == Url("https", TRUE, "news.example", <<"/", "a2">>)
A2Rel == Url("", FALSE, "", <<"/", "a2">>)

RawEntries == {A1, A2Rel, EmptyStr}

Answers ==
    {[kind |-> "raise", urls |-> <<>>]}
        \cup [kind : {"urls"}, urls : SeqsUpTo(RawEntries, MaxUrls)]

HtmlOk == [kind |-> "ok", id |-> 1]
HtmlEmpty == [kind |-> "ok", id |-> 0]
NetErr == [kind |-> "retryable", id |-> 1]
OtherErr == [kind |-> "other", id |-> 3]

\* what requests.get does on the successive calls of one fetch_html
FetchScenarios ==
    {[i \in 1..(DefaultMaxRetries + 1) |-> IF i <= k THEN NetErr ELSE final] :
        k \in 0..(DefaultMaxRetries + 1), final \in {HtmlOk, HtmlEmpty, OtherErr}}

\* fetch_html: the decorated function
fetch_html(outcomes) ==
    retry_decorator([max_retries |-> DefaultMaxRetries,
                     initial_delay |-> DefaultInitialDelay,
                     backoff_factor |-> DefaultBackoffFactor,
                     outcomes |-> outcomes,
                     jitters |-> [i \in 1..(DefaultMaxRetries + 1) |-> 0]])

\* "if html_content": the fetch returned a non-empty page
GotPage(r) == r.status = "returned" /\ r.value = HtmlOk

\* the parsed results the oracle gives: every combination of the fields' cases,
\* and some results whose fields have other types or are missing
RawResults ==
    [title : {PyStr(""), PyStr("T")},
     summary : {Missing, PyStr("S")},
     tags : {PyList(<<>>), PyList(<<Lower(Legislation), Unknown>>),
             PyList(<<LiFa, ZhengCe, LiFa>>)},
     publish_date : {PyStr(""), PyStr("2024-01-02")},
     is_relevant : {PyBool(TRUE), PyBool(FALSE)}]
      \cup [title : {PyStr("T")},
            summary : {PyStr("S")},
            tags : {PyChars(Padded(Legislation)), Missing},
            publish_date : {Missing},
            is_relevant : {PyChars(<<"Y", "e", "s">>), PyInt(1), PyInt(0), Missing}]

NoResult == [title |-> Missing, summary |-> Missing, tags |-> Missing,
             publish_date |-> Missing, is_relevant |-> Missing]

Responses ==
    {[tier |-> "fail", result |-> NoResult]}
        \cup [tier : {"primary", "fallback"}, result : RawResults]

\* the responses drawn in a whole crawl: one of each case of the well-typed results
CrawlResponses ==
    {[tier |-> "fail", result |-> NoResult]}
        \cup [tier : {"primary"},
              result : {r \in RawResults : r.summary = PyStr("S") /\ r.is_relevant.t = "bool"
                                            /\ r.tags.t = "list"}]

(***************************************************************************)
(* The crawl.  hist observes the run: it is written, never read, by the    *)
(* actions.                                                                *)
(*   listed, raised  get_source_list returned / crawl_all raised           *)
(*   crawled         the sources crawl_news was called for in this cycle   *)
(*   loop            the for loop of crawl_news: none, running, done       *)
(*   complete        when the loop was left, every new URL had been        *)
(*                   fetched                                               *)
(*   fetched         the URLs process_news_url fetched for this source     *)
(*   stored          the discovered URLs that were in the store when the   *)
(*                   deduplication ran                                     *)
(*   known           those of them the existence queries reported          *)
(*   sourceFailed    the first source of this cycle whose crawl_news       *)
(*                   caught an exception                                   *)
(*   firstFail, failKind   the first URL of this source that failed        *)
(*   rowsBefore      the number of rows when this URL's processing began   *)
(*   ret             what extract_news_content returned for this URL       *)
(*   extractDay      the day on which it returned an article               *)
(*   inserts         the number of INSERT statements executed for this URL *)
(*   saved, saveDay  the row inserted for this URL, and the day it was     *)
(*   seen            per attempt, what the parsed result was like (only    *)
(*                   when detail is set)                                   *)
(*   requests        per attempt, the oracle requests made (detail only)   *)
(*   sleeps          the pauses of extract_news_content, in seconds        *)
(*                   (detail only)                                         *)
(***************************************************************************)
HistInit(detail) ==
    [detail |-> detail, listed |-> FALSE, raised |-> FALSE, crawled |-> <<>>,
     loop |-> "none", complete |-> TRUE, fetched |-> <<>>, stored |-> {},
     known |-> {}, sourceFailed |-> 0, firstFail |-> 0, failKind |-> "",
     rowsBefore |-> 0, ret |-> "none", extractDay |-> 0, inserts |-> 0,
     saved |-> <<>>, saveDay |-> 0, seen |-> <<>>, requests |-> <<>>,
     sleeps |-> <<>>]

\* the observations of one URL, cleared
ClearUrl(h) ==
    [h EXCEPT !.rowsBefore = 0, !.ret = "none", !.extractDay = 0, !.inserts = 0,
              !.saved = <<>>, !.saveDay = 0, !.seen = <<>>, !.requests = <<>>,
              !.sleeps = <<>>]

NoteFail(h, kind) ==
    IF h.firstFail = 0 THEN [h EXCEPT !.firstFail = ui, !.failKind = kind] ELSE h

\* crawl_all: the loop is over
CycleDone(h) ==
    /\ pc' = "idle"
    /\ si' = 0
    /\ hist' = h
    /\ UNCHANGED <<cycle, sources>>

\* crawl_news returned: the next source, or the end of crawl_all
SourceDone(h) ==
    LET h2 == [ClearUrl(h) EXCEPT
                  !.loop = IF h.loop = "running" THEN "done" ELSE h.loop,
                  !.complete = (h.loop = "running") => (h.fetched = new_urls),
                  !.fetched = <<>>, !.stored = {}, !.known = {}, !.firstFail = 0,
                  !.failKind = ""]
    IN  /\ ui' = 0
        /\ new_urls' = <<>>
        /\ IF si < Len(sources)
           THEN /\ pc' = "sources"
                /\ si' = si + 1
                /\ hist' = h2
                /\ UNCHANGED <<cycle, sources>>
           ELSE CycleDone(h2)

\* lines 624-625 and 658-660 as they would be if the exception escaped
SourceFailedAborts(h) ==
    /\ ui' = 0
    /\ new_urls' = <<>>
    /\ CycleDone([h EXCEPT !.raised = TRUE])

\* lines 624-625: an exception in crawl_news is caught and logged
SourceFailed(h) ==
    SourceDone(IF h.sourceFailed = 0 THEN [h EXCEPT !.sourceFailed = si] ELSE h)

\* lines 615-619 as they would be if the loop ended after its first pass
UrlReturnedEndsLoop(h) == SourceDone(h)

\* process_news_url returned: crawl_news goes on to its pacing sleep, line 619
UrlReturned(h) ==
    /\ pc' = "pace"
    /\ hist' = h
    /\ UNCHANGED <<cycle, sources, si, new_urls, ui>>

\* lines 585-586 and 620-622 as they would be if the exception escaped
UrlFailedAborts(h) == SourceDone(h)

\* lines 585-586: an exception in process_news_url is caught and logged
UrlFailed(h) == UrlReturned(h)

\* crawl_all, line 650: get_source_list returns the registry's list, or raises
CrawlAllStart ==
    /\ pc = "idle"
    /\ cycle < MaxCycles
    /\ cycle' = cycle + 1
    /\ \/ \E list \in SourceLists :
            /\ sources' = list
            /\ new_urls' = <<>>
            /\ ui' = 0
            /\ IF list = <<>>
               THEN /\ pc' = "idle"
                    /\ si' = 0
               ELSE /\ pc' = "sources"
                    /\ si' = 1
            /\ hist' = [HistInit(hist.detail) EXCEPT !.listed = TRUE]
       \/ /\ hist' = [HistInit(hist.detail) EXCEPT !.raised = TRUE]
          /\ sources' = <<>>
          /\ new_urls' = <<>>
          /\ UNCHANGED <<pc, si, ui>>
    /\ UNCHANGED <<attempt, news_data, store, clock, retryVars, tagVars, callVars, proc>>

\* crawl_news up to its for loop: homepage, discovery, deduplication
CrawlNews ==
    /\ pc = "sources"
    /\ LET source == sources[si]
           h == [hist EXCEPT !.crawled = Append(@, si), !.loop = "none",
                             !.complete = TRUE]
       IN  \E outcomes \in FetchScenarios, answer \in Answers :
             LET page == fetch_html(outcomes)
                 news_urls == extract_news_urls(answer, source.url)
             IN  IF page.status = "raised"
                 THEN SourceFailed(h)
                 ELSE IF ~GotPage(page) \/ news_urls = <<>>
                 THEN SourceDone(h)
                 ELSE \E failed \in SUBSET Batches(news_urls) :
                        LET urls == check_urls_exist(news_urls, store, failed)
                            h2 == [h EXCEPT
                                      !.stored = StoredUrls(store) \cap Range(news_urls),
                                      !.known = Range(news_urls) \ Range(urls)]
                        IN  IF urls = <<>>
                            THEN SourceDone(h2)
                            ELSE /\ pc' = "urls"
                                 /\ new_urls' = urls
                                 /\ ui' = 1
                                 /\ hist' = [h2 EXCEPT !.loop = "running"]
                                 /\ UNCHANGED <<cycle, sources, si>>
    /\ UNCHANGED <<attempt, news_data, store, clock, retryVars, tagVars, callVars, proc>>

\* process_news_url, line 578: fetch the page of new_urls[ui]
FetchPage ==
    /\ pc = "urls"
    /\ LET url == new_urls[ui]
           h == [hist EXCEPT !.fetched = Append(@, url),
                             !.rowsBefore = BagCardinality(store)]
       IN  \E outcomes \in FetchScenarios :
             LET page == fetch_html(outcomes)
             IN  IF page.status = "raised"
                 THEN /\ UrlFailed(NoteFail(h, "fetch"))
                      /\ UNCHANGED <<attempt, news_data>>
                 ELSE IF ~GotPage(page)
                 THEN /\ UrlReturned(h)
                      /\ UNCHANGED <<attempt, news_data>>
                 ELSE /\ pc' = "extract"
                      /\ attempt' = 0
                      /\ hist' = h
                      /\ UNCHANGED <<cycle, sources, si, new_urls, ui, news_data>>
    /\ UNCHANGED <<store, clock, retryVars, tagVars, callVars, proc>>

\* what hist.seen keeps of an attempt
Seen(resp, language) ==
    LET result == validate_and_fix_result(resp.result, language)
    IN  IF resp.tier = "fail"
        THEN [tier |-> resp.tier, parsed |-> FALSE, empty |-> FALSE,
              relevant |-> FALSE, tagged |-> FALSE]
        ELSE [tier |-> resp.tier, parsed |-> TRUE,
              empty |-> ~Truthy(result.title) \/ ~Truthy(result.summary),
              relevant |-> result.is_relevant,
              tagged |-> result.tags # <<>>]

\* extract_news_content: one attempt of the loop, lines 416-499
ExtractAttempt ==
    /\ pc = "extract"
    /\ \E resp \in (IF hist.detail THEN Responses ELSE CrawlResponses) :
         LET language == sources[si].language
             o == AttemptOutcome(resp, attempt, language)
             h == IF hist.detail
                  THEN [hist EXCEPT
                           !.seen = Append(@, Seen(resp, language)),
                           !.requests = Append(@, Requests(resp)),
                           !.sleeps = IF o.kind = "continue"
                                      THEN Append(@, o.sleep) ELSE @]
                  ELSE hist
         IN  IF o.kind = "continue"
             THEN /\ attempt' = attempt + 1
                  /\ hist' = h
                  /\ UNCHANGED <<pc, cycle, sources, si, new_urls, ui, news_data>>
             ELSE IF o.value = None
             THEN /\ attempt' = 0
                  /\ news_data' = None
                  /\ UrlReturned(IF resp.tier = "fail"
                                 THEN NoteFail([h EXCEPT !.ret = "absent"], "extract")
                                 ELSE [h EXCEPT !.ret = "absent"])
             ELSE /\ attempt' = 0
                  /\ news_data' = o.value
                  /\ pc' = "save"
                  /\ hist' = [h EXCEPT !.ret = "article", !.extractDay = clock]
                  /\ UNCHANGED <<cycle, sources, si, new_urls, ui>>
    /\ UNCHANGED <<store, clock, retryVars, tagVars, callVars, proc>>

\* lines 567-573 as they would be if the row were written before the failure
InsertFailedRowKept(st, row) == st (+) SetToBag({row})

\* save_to_db, lines 567-573: execute or commit raises, the connection is closed
\* without a commit and the exception is logged; the table is as it was
InsertFailed(st, row) == st

\* process_news_url returned after lines 582-584; srcs is the source list as
\* the call left it.  crawl_news goes on to its pacing sleep, line 619
SaveReturned(h, srcs) ==
    /\ pc' = "pace"
    /\ hist' = h
    /\ sources' = srcs
    /\ UNCHANGED <<cycle, si, new_urls, ui>>

\* process_news_url, lines 582-584, and save_to_db: the insert succeeds, or
\* it raises and save_to_db logs the exception
SaveToDb ==
    /\ pc = "save"
    /\ LET url == new_urls[ui]
           row == DataRow(news_data, SourceWithUrl(sources[si], url), clock)
           srcs == [sources EXCEPT ![si] = CallerSource(sources[si], url)]
       IN  \/ /\ BagCardinality(store) < MaxRows
              /\ store' = store (+) SetToBag({row})
              /\ SaveReturned([hist EXCEPT !.inserts = @ + 1, !.saved = <<row>>,
                                           !.saveDay = clock], srcs)
           \/ /\ store' = InsertFailed(store, row)
              /\ SaveReturned(NoteFail([hist EXCEPT !.inserts = @ + 1], "insert"), srcs)
    /\ UNCHANGED <<attempt, news_data, clock, retryVars, tagVars, callVars, proc>>

\* crawl_news, line 619: the pacing sleep, then the next URL or the end of the loop
Pace ==
    /\ pc = "pace"
    /\ IF ui < Len(new_urls)
       THEN /\ pc' = "urls"
            /\ ui' = ui + 1
            /\ hist' = ClearUrl(hist)
            /\ UNCHANGED <<cycle, sources, si, new_urls>>
       ELSE SourceDone(hist)
    /\ news_data' = None
    /\ UNCHANGED <<attempt, store, clock, retryVars, tagVars, callVars, proc>>

\* the day changes; the crawl reads the clock in save_to_db only
Tick ==
    /\ pc = "save"
    /\ clock < MaxDay
    /\ clock' = clock + 1
    /\ UNCHANGED <<pc, cycle, sources, si, new_urls, ui, attempt, news_data, store, hist,
                   retryVars, tagVars, callVars, proc>>

Init ==
    /\ pc = "idle"
    /\ cycle = 0
    /\ sources = <<>>
    /\ si = 0
    /\ new_urls = <<>>
    /\ ui = 0
    /\ attempt = 0
    /\ news_data = None
    /\ store = EmptyBag
    /\ clock = 1
    /\ hist = HistInit(FALSE)
    /\ r_in = None
    /\ r_out = None
    /\ t_in = None
    /\ t_out = None
    /\ d_in = None
    /\ d_out = None
    /\ n_in = None
    /\ n_out = None
    /\ proc = None

Next ==
    CrawlAllStart \/ CrawlNews \/ FetchPage \/ ExtractAttempt \/ SaveToDb \/ Pace \/ Tick

Spec == Init /\ [][Next]_vars

(***************************************************************************)
(* One URL of a source: process_news_url on its own, every parsed result   *)
(* observed.                                                               *)
(***************************************************************************)
InitUrl ==
    /\ pc = "urls"
    /\ cycle = 1
    /\ \E n \in 1..MaxSources :
         /\ sources = [i \in 1..n |-> Registry(i)]
         /\ si = n
         /\ hist = [HistInit(TRUE) EXCEPT !.listed = TRUE, !.loop = "running",
                                           !.crawled = [i \in 1..n |-> i]]
    /\ new_urls = <<A1>>
    /\ ui = 1
    /\ attempt = 0
    /\ news_data = None
    /\ store = EmptyBag
    /\ clock = 1
    /\ r_in = None
    /\ r_out = None
    /\ t_in = None
    /\ t_out = None
    /\ d_in = None
    /\ d_out = None
    /\ n_in = None
    /\ n_out = None
    /\ proc = None

NextUrl == FetchPage \/ ExtractAttempt \/ SaveToDb \/ Pace \/ Tick

SpecUrl == InitUrl /\ [][NextUrl]_vars

(***************************************************************************)
(* retry_decorator on one operation.                                       *)
(***************************************************************************)
InitRetry ==
    /\ pc = "idle"
    /\ cycle = 0
    /\ sources = <<>>
    /\ si = 0
    /\ new_urls = <<>>
    /\ ui = 0
    /\ attempt = 0
    /\ news_data = None
    /\ store = EmptyBag
    /\ clock = 1
    /\ hist = HistInit(FALSE)
    /\ r_in \in RetryInputs
    /\ r_out = None
    /\ t_in = None
    /\ t_out = None
    /\ d_in = None
    /\ d_out = None
    /\ n_in = None
    /\ n_out = None
    /\ proc = None

\* the decorated function is called once
RetryCall ==
    /\ r_in # None
    /\ r_out = None
    /\ r_out' = retry_decorator(r_in)
    /\ UNCHANGED <<mainVars, r_in, tagVars, callVars, proc>>

NextRetry == RetryCall

SpecRetry == InitRetry /\ [][NextRetry]_vars

(***************************************************************************)
(* validate_tags on one tag list.                                          *)
(***************************************************************************)
InitTags ==
    /\ pc = "idle"
    /\ cycle = 0
    /\ sources = <<>>
    /\ si = 0
    /\ new_urls = <<>>
    /\ ui = 0
    /\ attempt = 0
    /\ news_data = None
    /\ store = EmptyBag
    /\ clock = 1
    /\ hist = HistInit(FALSE)
    /\ r_in = None
    /\ r_out = None
    /\ t_in \in [tags : SeqsUpTo(TagInputs, MaxTags), language : Languages]
    /\ t_out = None
    /\ d_in = None
    /\ d_out = None
    /\ n_in = None
    /\ n_out = None
    /\ proc = None

TagsCall ==
    /\ t_in # None
    /\ t_out = None
    /\ t_out' = [tags |-> validate_tags(t_in.tags, t_in.language)]
    /\ UNCHANGED <<mainVars, retryVars, t_in, callVars, proc>>

NextTags == TagsCall

SpecTags == InitTags /\ [][NextTags]_vars

(***************************************************************************)
(* check_urls_exist applied to a URL list and again to its result, the     *)
(* store being the same.  The lists are long enough to fill a batch: a run *)
(* of BatchSize - 1 copies of one URL, or none, then up to MaxUrls URLs.   *)
(***************************************************************************)
A3 == Url("https", TRUE, "news.example", <<"/", "a3">>)

DedupLists ==
    {[i \in 1..k |-> A3] \o tail :
        k \in {0, BatchSize - 1}, tail \in SeqsUpTo({A1, A2}, MaxUrls)}

\* the news table holding one row for each URL of the set
StoreOf(urlset) ==
    SetToBag({DataRow([title |-> PyStr("T"), summary |-> PyStr("S"),
                       tags |-> <<Legislation>>, publish_date |-> PyStr("")],
                      SourceWithUrl(Registry(1), u), 1) : u \in urlset})

InitDedup ==
    /\ pc = "idle"
    /\ cycle = 0
    /\ sources = <<>>
    /\ si = 0
    /\ new_urls = <<>>
    /\ ui = 0
    /\ attempt = 0
    /\ news_data = None
    /\ \E urlset \in SUBSET {A1, A2, A3} : store = StoreOf(urlset)
    /\ clock = 1
    /\ hist = HistInit(FALSE)
    /\ r_in = None
    /\ r_out = None
    /\ t_in = None
    /\ t_out = None
    /\ d_in \in [urls : DedupLists]
    /\ d_out = None
    /\ n_in = None
    /\ n_out = None
    /\ proc = None

\* two calls in a row; failed1 and failed2 are the batches whose existence
\* query raises in the first and in the second call
DedupCall ==
    /\ d_in # None
    /\ d_out = None
    /\ \E failed1 \in SUBSET Batches(d_in.urls) :
         LET first == check_urls_exist(d_in.urls, store, failed1)
         IN  \E failed2 \in SUBSET Batches(first) :
               d_out' = [first |-> first,
                         second |-> check_urls_exist(first, store, failed2),
                         failed1 |-> failed1, failed2 |-> failed2]
    /\ UNCHANGED <<mainVars, retryVars, tagVars, d_in, normVars, proc>>

NextDedup == DedupCall

SpecDedup == InitDedup /\ [][NextDedup]_vars

(***************************************************************************)
(* extract_news_urls applied to one answer of the oracle: the raw entries  *)
(* are of every kind a link on a page can have.                            *)
(***************************************************************************)
AbsHttp == Url("http", TRUE, "tax.example", <<"/", "q">>)          \* "http://tax.example/q"
PathRel == Url("", FALSE, "", <<"a2">>)                             \* "a2"
ProtoRel == Url("", TRUE, "other.example", <<"/", "p">>)            \* "//other.example/p"
FtpUrl == Url("ftp", TRUE, "files.example", <<"/", "p">>)           \* "ftp://files.example/p"
MailTo == Url("mailto", FALSE, "", <<"x">>)                         \* "mailto:x"
Blank == [EmptyStr EXCEPT !.ws = TRUE]                              \* " "
SpaceRel == [A2Rel EXCEPT !.ws = TRUE]                              \* " /a2"

NormEntries ==
    {A1, AbsHttp, A2Rel, PathRel, ProtoRel, FtpUrl, MailTo, EmptyStr, Blank, SpaceRel}

InitNorm ==
    /\ pc = "idle"
    /\ cycle = 0
    /\ sources = <<>>
    /\ si = 0
    /\ new_urls = <<>>
    /\ ui = 0
    /\ attempt = 0
    /\ news_data = None
    /\ store = EmptyBag
    /\ clock = 1
    /\ hist = HistInit(FALSE)
    /\ r_in = None
    /\ r_out = None
    /\ t_in = None
    /\ t_out = None
    /\ d_in = None
    /\ d_out = None
    /\ n_in \in [urls : SeqsUpTo(NormEntries, MaxUrls),
                 source_url : {Site, SiteHK, SiteTax}]
    /\ n_out = None
    /\ proc = None

NormCall ==
    /\ n_in # None
    /\ n_out = None
    /\ n_out' = [urls |-> extract_news_urls([kind |-> "urls", urls |-> n_in.urls],
                                            n_in.source_url)]
    /\ UNCHANGED <<mainVars, retryVars, tagVars, dedupVars, n_in, proc>>

NextNorm == NormCall

SpecNorm == InitNorm /\ [][NextNorm]_vars

(***************************************************************************)
(* The process.  proc is the state of one run of the program:              *)
(*   entry        the script that is run: main.py, or news_crawler_agent   *)
(*                with its own main                                        *)
(*   missing      the required environment variables that are not set      *)
(*   mpc          where the main thread is                                 *)
(*   constructed  the crawler (NewsCrawler or NewsCrawlerAgent) exists     *)
(*   sched        the BackgroundScheduler: none, running, shutdown         *)
(*   mc, jc       the crawl_all running on the main thread and on the      *)
(*                scheduler's worker thread: None, or the URL it is at and *)
(*                what it is doing for it                                  *)
(*   triggers     the number of times the cron trigger has fired           *)
(*   stopped      the stop signal has been received                        *)
(*   cycles       the number of crawl_all calls started                    *)
(*   startedAfterStop, aborted   a cycle began after the signal; the work  *)
(*                in flight that the exit of the process cut short         *)
(* A cycle is reduced to the work of its URLs: fetch, extract, persist.    *)
(* The scheduler is APScheduler's: a job runs on a worker thread, at most  *)
(* one instance of a job at a time, and shutdown() waits for the running   *)
(* job.                                                                    *)
(***************************************************************************)
RequiredVars == {"DASHSCOPE_API_KEY", "DB_HOST", "DB_DATABASE", "DB_USERNAME", "DB_PASSWORD"}

\* news_crawler_agent.main, lines 668-683: the variables it tests
AgentCheckedVars == {"DASHSCOPE_API_KEY", "DB_HOST", "DB_DATABASE"}

Phases == <<"fetch", "extract", "persist">>

StartCycle == [url |-> 1, phase |-> 1]

\* the next piece of work of a cycle, None when the cycle is over
StepCycle(c) ==
    IF c.phase < Len(Phases) THEN [c EXCEPT !.phase = @ + 1]
    ELSE IF c.url < MaxUrls THEN [url |-> c.url + 1, phase |-> 1]
    ELSE None

InitProc ==
    /\ pc = "idle"
    /\ cycle = 0
    /\ sources = <<>>
    /\ si = 0
    /\ new_urls = <<>>
    /\ ui = 0
    /\ attempt = 0
    /\ news_data = None
    /\ store = EmptyBag
    /\ clock = 1
    /\ hist = HistInit(FALSE)
    /\ r_in = None
    /\ r_out = None
    /\ t_in = None
    /\ t_out = None
    /\ d_in = None
    /\ d_out = None
    /\ n_in = None
    /\ n_out = None
    /\ \E entry \in {"main.py", "news_crawler_agent.py"}, missing \in SUBSET RequiredVars :
         proc = [entry |-> entry, missing |-> missing, mpc |-> "start",
                 constructed |-> FALSE, sched |-> "none", mc |-> None, jc |-> None,
                 triggers |-> 0, stopped |-> FALSE, cycles |-> 0,
                 startedAfterStop |-> FALSE, aborted |-> None]

ProcUnchanged == UNCHANGED <<mainVars, retryVars, tagVars, callVars>>

\* main.py, lines 41-52: the test of the environment, the signal handlers
MainCheckEnv ==
    /\ proc.entry = "main.py"
    /\ proc.mpc = "start"
    /\ proc' = [proc EXCEPT !.mpc = IF proc.missing # {} THEN "exited" ELSE "registered"]
    /\ ProcUnchanged

\* main.py, line 56: NewsCrawler() builds the agent and the scheduler, or raises
MainConstruct ==
    /\ proc.mpc = "registered"
    /\ \/ proc' = [proc EXCEPT !.mpc = "constructed", !.constructed = TRUE]
       \/ proc' = [proc EXCEPT !.mpc = "exited"]
    /\ ProcUnchanged

\* NewsCrawler.start, lines 37-43: add_job and scheduler.start()
CrawlerStart ==
    /\ proc.mpc = "constructed"
    /\ proc' = [proc EXCEPT !.mpc = "started", !.sched = "running"]
    /\ ProcUnchanged

\* NewsCrawler.start, lines 46-48: crawl_all on the caller's thread
RunImmediately ==
    /\ proc.mpc = "started"
    /\ proc' = [proc EXCEPT !.mpc = "cycle", !.mc = StartCycle, !.cycles = @ + 1]
    /\ ProcUnchanged

\* news_crawler_agent.main, lines 668-700: its test of the environment, then
\* NewsCrawlerAgent() and crawl_all
AgentMain ==
    /\ proc.entry = "news_crawler_agent.py"
    /\ proc.mpc = "start"
    /\ proc' = IF proc.missing \cap AgentCheckedVars # {}
               THEN [proc EXCEPT !.mpc = "exited"]
               ELSE [proc EXCEPT !.mpc = "cycle", !.constructed = TRUE,
                                 !.mc = StartCycle, !.cycles = @ + 1]
    /\ ProcUnchanged

\* the crawl_all of the main thread goes on; when it returns, main.py sleeps
\* in its loop (lines 68-73) and news_crawler_agent.main ends
CycleStepMain ==
    /\ proc.mpc = "cycle"
    /\ LET c == StepCycle(proc.mc)
       IN  proc' = [proc EXCEPT
                       !.mc = c,
                       !.mpc = IF c # None THEN "cycle"
                               ELSE IF proc.entry = "main.py" THEN "sleeping"
                               ELSE "exited"]
    /\ ProcUnchanged

\* the cron trigger of line 37-42 fires: the job is run on a worker thread,
\* unless an instance of it is still running
CronTrigger ==
    /\ proc.sched = "running"
    /\ proc.triggers < MaxCycles
    /\ proc' = IF proc.jc = None
               THEN [proc EXCEPT !.triggers = @ + 1, !.jc = StartCycle, !.cycles = @ + 1,
                                 !.startedAfterStop = @ \/ proc.stopped]
               ELSE [proc EXCEPT !.triggers = @ + 1]
    /\ ProcUnchanged

\* the crawl_all of the worker thread goes on
CycleStepJob ==
    /\ proc.jc # None
    /\ proc' = [proc EXCEPT !.jc = StepCycle(proc.jc)]
    /\ ProcUnchanged

\* main.py, lines 26-30: SIGINT or SIGTERM arrives, the handler runs on the
\* main thread.  Before the scheduler runs, the handler raises (crawler is
\* not bound, or the scheduler is not running) and main ends at lines 77-84;
\* otherwise it calls crawler.stop()
signal_handler ==
    /\ proc.entry = "main.py"
    /\ proc.mpc \in {"registered", "constructed", "started", "cycle", "sleeping"}
    /\ ~proc.stopped
    /\ proc' = IF proc.mpc \in {"registered", "constructed"}
               THEN [proc EXCEPT !.stopped = TRUE, !.mpc = "exited"]
               ELSE [proc EXCEPT !.stopped = TRUE, !.mpc = "handler", !.sched = "shutdown"]
    /\ ProcUnchanged

\* main.py, lines 31-32: scheduler.shutdown() has returned, the running job
\* being over; sys.exit(0) ends the main thread whatever it was doing
HandlerExit ==
    /\ proc.mpc = "handler"
    /\ proc.jc = None
    /\ proc' = [proc EXCEPT !.mpc = "exited", !.aborted = proc.mc, !.mc = None]
    /\ ProcUnchanged

NextProc ==
    \/ MainCheckEnv \/ MainConstruct \/ CrawlerStart \/ RunImmediately \/ AgentMain
    \/ CycleStepMain \/ CronTrigger \/ CycleStepJob \/ signal_handler \/ HandlerExit

SpecProc == InitProc /\ [][NextProc]_vars

(***************************************************************************)
(* Properties.                                                             *)
(***************************************************************************)

\* C1: under retry_decorator with max_retries = n >= 0, an operation whose
\* every attempt fails with a retryable error is invoked at most n + 1 times
\* and the wrapper raises the error of the last invocation, unmodified.
C1_RetryExhaustion ==
    (r_out # None /\ AllRetryable(r_in.outcomes)) =>
        /\ r_out.calls <= r_in.max_retries + 1
        /\ r_out.status = "raised"
        /\ r_out.value = r_in.outcomes[r_out.calls]

\* fetch_html's setting: four failing attempts, the fourth error is raised
C1_Witness ==
    /\ r_out # None
    /\ AllRetryable(r_in.outcomes)
    /\ r_in.max_retries = DefaultMaxRetries
    /\ r_out.calls = DefaultMaxRetries + 1
    /\ r_out.status = "raised"
    /\ r_in.outcomes[1] # r_in.outcomes[r_out.calls]
    /\ r_out.value = r_in.outcomes[r_out.calls]

\* C2: in crawl_news every new URL is fetched, in order, whatever happened to
\* the URLs before it: while the loop runs the fetched URLs are the new URLs
\* up to the current one, and when the loop is left all of them were fetched.
C2_EveryNewUrlProcessed ==
    /\ pc = "urls" => hist.fetched = SubSeq(new_urls, 1, ui - 1)
    /\ pc \in {"extract", "save", "pace"} => hist.fetched = SubSeq(new_urls, 1, ui)
    /\ hist.complete

\* the first URL's extraction failed on both tiers three times, the second
\* URL was fetched all the same
C2_Witness ==
    /\ pc = "pace"
    /\ ui = 2
    /\ Len(new_urls) = 2
    /\ hist.firstFail = 1
    /\ hist.failKind = "extract"
    /\ hist.fetched = new_urls

\* C3: once get_source_list has returned, crawl_news is called exactly once
\* for every source of the list, in order, whatever failed inside the sources
\* before, and crawl_all does not raise.
C3_EverySourceCrawled ==
    hist.listed =>
        /\ ~hist.raised
        /\ pc = "idle" => hist.crawled = [i \in 1..Len(sources) |-> i]
        /\ pc = "sources" => hist.crawled = [i \in 1..(si - 1) |-> i]
        /\ pc \in {"urls", "extract", "save", "pace"} =>
               hist.crawled = [i \in 1..si |-> i]

\* the first source's homepage could not be fetched, the second source was
\* crawled and the cycle ended normally
C3_Witness ==
    /\ pc = "idle"
    /\ hist.listed
    /\ Len(sources) = 2
    /\ hist.sourceFailed = 1
    /\ hist.crawled = <<1, 2>>
    /\ ~hist.raised

\* C4: no two rows of the store have the same url.
C4_StoreUrlsUnique ==
    \A r1 \in BagToSet(store) :
        /\ CopiesIn(r1, store) = 1
        /\ \A r2 \in BagToSet(store) : r1.url = r2.url => r1 = r2

\* the pieces of a stored tags field: the field split at ", "
RECURSIVE SplitTags(_, _)
SplitTags(str, piece) ==
    IF str = <<>> THEN <<piece>>
    ELSE IF Len(str) >= 2 /\ str[1] = "," /\ str[2] = " "
    THEN <<piece>> \o SplitTags(SubSeq(str, 3, Len(str)), <<>>)
    ELSE SplitTags(Tail(str), Append(piece, Head(str)))

Matches(tag, v, stripped) ==
    LET t == IF stripped THEN Strip(tag) ELSE tag
    IN  tag # <<>> /\ (t = v \/ Lower(t) = Lower(v))

\* out lists without repetition the vocabulary tags that some input tag
\* matches, in the order of their first matching input tag
CanonicalOutput(tags, valid, out, stripped) ==
    LET First(v) == CHOOSE i \in 1..Len(tags) :
                        /\ Matches(tags[i], v, stripped)
                        /\ \A j \in 1..(i - 1) : ~Matches(tags[j], v, stripped)
    IN  /\ \A i, j \in 1..Len(out) : i # j => out[i] # out[j]
        /\ Range(out) = {v \in Range(valid) :
                             \E i \in 1..Len(tags) : Matches(tags[i], v, stripped)}
        /\ \A i, j \in 1..Len(out) : i < j => First(out[i]) < First(out[j])

\* C10 as stated: the output of validate_tags is the duplicate-free list, in
\* canonical casing and first-seen order, of the vocabulary tags that an
\* input tag matches exactly or case-insensitively.
C10_AsStated ==
    t_out # None =>
        CanonicalOutput(t_in.tags, get_valid_tags_by_language(t_in.language),
                        t_out.tags, FALSE)

\* C10: the output of validate_tags is the duplicate-free list, in canonical
\* casing and first-seen order, of the vocabulary tags that an input tag
\* matches exactly or case-insensitively after its surrounding white space
\* is removed; every other tag is dropped.
C10_ValidateTags ==
    t_out # None =>
        CanonicalOutput(t_in.tags, get_valid_tags_by_language(t_in.language),
                        t_out.tags, TRUE)

\* vocabulary of "en", input [legislation, Unknown]: output [Legislation]
C10_Witness ==
    /\ t_out # None
    /\ t_in.language = "en"
    /\ t_in.tags = <<Lower(Legislation), Unknown>>
    /\ t_out.tags = <<Legislation>>

\* the index of the first outcome of the operation that is not a retryable
\* exception, 0 when there is none
FirstNotRetryable(outcomes) ==
    IF AllRetryable(outcomes) THEN 0
    ELSE CHOOSE k \in 1..Len(outcomes) :
             /\ outcomes[k].kind # "retryable"
             /\ \A j \in 1..(k - 1) : outcomes[j].kind = "retryable"

\* C17: when an invocation fails with an exception that is not of a
\* retryable kind, the wrapper raises that exception at once: that invocation
\* is the last one, and no sleep follows it, whatever is left of max_retries.
C17_NonRetryablePropagates ==
    r_out # None =>
        LET k == FirstNotRetryable(r_in.outcomes)
        IN  (k # 0 /\ r_in.outcomes[k].kind = "other") =>
                /\ r_out.status = "raised"
                /\ r_out.value = r_in.outcomes[k]
                /\ r_out.calls = k
                /\ Len(r_out.sleeps) = k - 1

\* max_retries = 3: the first call fails with a retryable error, the second
\* with another kind of error; there is one sleep and no third call
C17_Witness ==
    /\ r_out # None
    /\ r_in.max_retries = DefaultMaxRetries
    /\ r_in.outcomes[1].kind = "retryable"
    /\ r_in.outcomes[2].kind = "other"
    /\ r_out.status = "raised"
    /\ r_out.value = r_in.outcomes[2]
    /\ r_out.calls = 2
    /\ Len(r_out.sleeps) = 1

\* C11: check_urls_exist applied to its own result, the store being the
\* same, returns that result, whichever batch queries fail in either call.
C11_Idempotent ==
    d_out # None => d_out.second = d_out.first

\* C12: when no batch query fails, check_urls_exist returns its input list
\* without the entries whose URL is in the store: every other entry is kept,
\* in the order of the input.
C12_DedupResult ==
    (d_out # None /\ d_out.failed1 = {}) =>
        LET Absent(u) == \A row \in BagToSet(store) : row.url # u
        IN  /\ d_out.first = SelectSeq(d_in.urls, Absent)
            /\ \A i \in 1..Len(d_out.first) : Absent(d_out.first[i])
            /\ \A i \in 1..Len(d_in.urls) :
                 Absent(d_in.urls[i]) =>
                     \E j \in 1..Len(d_out.first) : d_out.first[j] = d_in.urls[i]

\* a list of two batches: the entry that fills the first batch is new and is
\* kept, the entry of the second batch is stored and is removed
C12_Witness ==
    /\ d_out # None
    /\ d_out.failed1 = {}
    /\ Len(d_in.urls) = BatchSize + 1
    /\ StoredUrls(store) = {d_in.urls[BatchSize + 1]}
    /\ d_in.urls[BatchSize] # d_in.urls[BatchSize + 1]
    /\ d_out.first = SubSeq(d_in.urls, 1, BatchSize)

\* the non-empty entries of a raw list, which are the ones normalize_urls
\* gives a URL for
NonEmpty(urls) == LET Kept(u) == ~IsEmptyStr(u) IN SelectSeq(urls, Kept)

\* url is an absolute URL of the origin (scheme and host) of source_url
HasOriginOf(url, source_url) ==
    /\ ~url.ws
    /\ url.auth
    /\ url.scheme = source_url.scheme
    /\ url.netloc = source_url.netloc

\* C13: every raw entry that starts with http:// or https:// is returned
\* unchanged, and every other entry (path-relative, root-relative,
\* protocol-relative, of another scheme) is returned as a URL whose scheme
\* and host are those of the source URL.
C13_NormalizedOrigin ==
    n_out # None =>
        LET kept == NonEmpty(n_in.urls)
        IN  /\ Len(n_out.urls) = Len(kept)
            /\ \A i \in 1..Len(kept) :
                 IF StartsWithHttp(kept[i])
                 THEN n_out.urls[i] = kept[i]
                 ELSE HasOriginOf(n_out.urls[i], n_in.source_url)

\* every attempt made so far for the current URL failed on both tiers
AllAttemptsFailed ==
    hist.seen # <<>> /\ \A i \in 1..Len(hist.seen) : hist.seen[i].tier = "fail"

\* C14: when the primary and the fallback path fail on every attempt,
\* extract_news_content makes 3 attempts of both tiers, sleeps 2^attempt
\* seconds (1, then 2) after each attempt but the last, does not sleep after
\* the last, and returns None.
C14_ExtractExhaustion ==
    AllAttemptsFailed =>
        /\ Len(hist.seen) <= ExtractMaxRetries
        /\ \A i \in 1..Len(hist.requests) : hist.requests[i] = <<"primary", "fallback">>
        /\ pc = "extract" =>
               /\ Len(hist.seen) < ExtractMaxRetries
               /\ attempt = Len(hist.seen)
               /\ hist.sleeps = [i \in 1..Len(hist.seen) |-> 2 ^ (i - 1)]
        /\ pc # "extract" =>
               /\ pc = "pace"
               /\ Len(hist.seen) = ExtractMaxRetries
               /\ Len(hist.requests) = ExtractMaxRetries
               /\ hist.sleeps = [i \in 1..(ExtractMaxRetries - 1) |-> 2 ^ (i - 1)]
               /\ hist.ret = "absent"
               /\ news_data = None
               /\ hist.inserts = 0

\* three attempts failed on both tiers: pauses of 1 and 2 seconds, None
C14_Witness ==
    /\ AllAttemptsFailed
    /\ pc = "pace"
    /\ Len(hist.seen) = 3
    /\ hist.sleeps = <<1, 2>>
    /\ hist.ret = "absent"

\* the number of requests of a tier in the attempts of the current URL
RECURSIVE RequestCount(_, _)
RequestCount(requests, tier) ==
    IF requests = <<>> THEN 0
    ELSE Cardinality({j \in 1..Len(Head(requests)) : Head(requests)[j] = tier})
             + RequestCount(Tail(requests), tier)

\* C20: in one call of extract_news_content the primary request is made at
\* most 3 times and the fallback request at most 3 times; every attempt
\* begins with one primary request, and makes one fallback request after it
\* exactly when the primary path raised.
C20_TwoTiers ==
    /\ Len(hist.requests) = Len(hist.seen)
    /\ RequestCount(hist.requests, "primary") <= ExtractMaxRetries
    /\ RequestCount(hist.requests, "fallback") <= ExtractMaxRetries
    /\ \A i \in 1..Len(hist.requests) :
         /\ hist.requests[i][1] = "primary"
         /\ IF hist.seen[i].tier = "primary"
            THEN hist.requests[i] = <<"primary">>
            ELSE hist.requests[i] = <<"primary", "fallback">>

\* attempt 1: the primary path returns a result without a title; attempt 2:
\* both tiers raise; attempt 3: the primary path raises and the fallback's
\* result is accepted
C20_Witness ==
    /\ pc = "save"
    /\ hist.ret = "article"
    /\ Len(hist.seen) = 3
    /\ hist.seen[1].tier = "primary"
    /\ hist.seen[2].tier = "fail"
    /\ hist.seen[3].tier = "fallback"
    /\ hist.requests = <<<<"primary">>, <<"primary", "fallback">>, <<"primary", "fallback">>>>
    /\ RequestCount(hist.requests, "primary") = 3
    /\ RequestCount(hist.requests, "fallback") = 2

\* the work of source si is over: crawl_news returned before its loop, or
\* the last new URL has been dealt with
SourceWorkOver ==
    \/ pc = "sources"
    \/ pc = "pace" /\ ui = Len(new_urls)

\* what a step of a cycle may do to the positions in the source list and in
\* the list of new URLs, and what it may fetch and store
C15_Step ==
    /\ pc # "idle" => sources' = sources
    /\ si' # si =>
         \/ pc = "idle" /\ si = 0 /\ si' = 1
         \/ si # 0 /\ si' = si + 1 /\ si' <= Len(sources) /\ SourceWorkOver
         \/ si = Len(sources) /\ si' = 0 /\ SourceWorkOver
    /\ (hist'.crawled # hist.crawled /\ hist'.crawled # <<>>) =>
         /\ pc = "sources"
         /\ hist'.crawled = Append(hist.crawled, si)
         /\ hist.fetched = <<>>
    /\ (pc \in {"urls", "extract", "save", "pace"} /\ new_urls' # new_urls) =>
         (new_urls' = <<>> /\ si' # si)
    /\ (ui' # ui /\ ui' # 0) =>
         \/ pc = "sources" /\ ui = 0 /\ ui' = 1
         \/ pc = "pace" /\ ui' = ui + 1 /\ ui' <= Len(new_urls)
    /\ (hist'.fetched # hist.fetched /\ hist'.fetched # <<>>) =>
         /\ pc = "urls"
         /\ hist'.fetched = Append(hist.fetched, new_urls[ui])
    /\ pc' = "extract" => (pc \in {"urls", "extract"} /\ ui' = ui /\ si' = si)
    /\ pc' = "save" => (pc \in {"extract", "save"} /\ ui' = ui /\ si' = si)
    /\ store' # store =>
         /\ pc = "save"
         /\ \E row \in BagToSet(store') :
              /\ store' = store (+) SetToBag({row})
              /\ row.url = new_urls[ui]
              /\ row.source = sources[si].source
              /\ row.language = sources[si].language

\* C15: in a cycle the sources are crawled one after the other in the order
\* of the list get_source_list returned, the next source's homepage being
\* fetched only when the work of the current one is over; the new URLs of a
\* source are fetched, extracted and stored one after the other in the order
\* of the list of new URLs.
C15_Ordering == [][C15_Step]_vars

\* the second source is at its second new URL, which was stored; a row of
\* the first source is in the store
C15_Witness ==
    /\ pc = "pace"
    /\ Len(sources) = 2
    /\ si = 2
    /\ hist.crawled = <<1, 2>>
    /\ Len(new_urls) = 2
    /\ ui = 2
    /\ hist.fetched = new_urls
    /\ Len(hist.saved) = 1
    /\ \E row \in BagToSet(store) : row.source = sources[1].source

\* C16: at most one crawl_all is in progress at any time: the cron trigger
\* does not start a cycle while the start-up cycle or an earlier scheduled
\* cycle is running, so two cycles never write to the store at the same time.
C16_NoOverlappingCycles ==
    proc # None => ~(proc.mc # None /\ proc.jc # None)

\* C18: when a required environment variable is missing at startup, no
\* crawler is constructed, no scheduler is started and no cycle is run.
C18_ConfigurationFatal ==
    (proc # None /\ proc.missing # {}) =>
        /\ ~proc.constructed
        /\ proc.sched = "none"
        /\ proc.cycles = 0

\* C19: after the stop signal no cycle is started, and the process does not
\* exit with work in flight: a cycle that is running, on the main thread or
\* on the scheduler's thread, finishes what it is doing for its current URL.
C19_GracefulShutdown ==
    (proc # None /\ proc.stopped) =>
        /\ ~proc.startedAfterStop
        /\ proc.aborted = None
        /\ proc.mpc = "exited" => proc.jc = None

\* the batch (0, 1, ...) of the i-th entry of a list
BatchOf(i) == (i - 1) \div BatchSize

\* a batch whose query succeeded reported u as stored
ReportedStored(u) ==
    \E j \in 1..Len(d_in.urls) :
        /\ d_in.urls[j] = u
        /\ BatchOf(j) \notin d_out.failed1
        /\ u \in StoredUrls(store)

InsertHasFailed == pc = "pace" /\ hist.inserts = 1 /\ hist.saved = <<>>

C22_Step ==
    /\ hist.inserts <= 1
    /\ hist.inserts = 1 => hist.ret = "article"
    /\ (pc = "save" /\ pc' # "save") => hist'.inserts = 1
    /\ InsertHasFailed =>
         /\ BagCardinality(store) = hist.rowsBefore
         /\ ~hist.raised
         /\ hist.loop = "running"
         /\ store' = store
         /\ IF ui < Len(new_urls)
            THEN /\ pc' = "urls"
                 /\ ui' = ui + 1
                 /\ new_urls' = new_urls
                 /\ si' = si
            ELSE pc' \in {"sources", "idle"}

\* C22: for one URL the insert is attempted at most once, and only with an
\* accepted extraction result; when it fails the table has the rows it had
\* before the URL was processed, no exception has left the loop of crawl_news,
\* and the next step is the next URL of the list (or the end of the source
\* when the URL was the last one), the table still unchanged.
C22_WriteFailure == [][C22_Step]_vars

\* the insert of the first URL failed, the table being empty, and the second
\* URL has been fetched, extracted and accepted
C22_Witness ==
    /\ pc = "save"
    /\ ui = 2
    /\ hist.firstFail = 1
    /\ hist.failKind = "insert"
    /\ store = EmptyBag

\* d_k, in hundredths of a second: the base delay of the k-th sleep
BaseDelay(p, k) == p.initial_delay * (p.backoff_factor ^ (k - 1)) * 100

\* C23 as stated: every sleep is shorter than 1.5 times its base delay
C23_AsStated ==
    r_out # None =>
        \A k \in 1..Len(r_out.sleeps) : 2 * r_out.sleeps[k] < 3 * BaseDelay(r_in, k)

\* C23: whatever the attempts do, the wrapper sleeps once between two
\* consecutive attempts and not after the last one (a success, an error that
\* is not retried, or the failure that exhausts the retries); the k-th sleep
\* is of at least d_k and at most 1.5 * d_k, where d_1 = initial_delay and
\* d_(k+1) = d_k * backoff_factor.
C23_Backoff ==
    r_out # None =>
        /\ Len(r_out.sleeps) = r_out.calls - 1
        /\ \A k \in 1..Len(r_out.sleeps) :
             /\ BaseDelay(r_in, k) <= r_out.sleeps[k]
             /\ 2 * r_out.sleeps[k] <= 3 * BaseDelay(r_in, k)

\* fetch_html's setting, four failing attempts: three sleeps, on the base
\* delays 2, 4 and 8 seconds, with the smallest, a middle and the largest jitter
C23_Witness ==
    /\ r_out # None
    /\ r_in.max_retries = DefaultMaxRetries
    /\ r_in.initial_delay = DefaultInitialDelay
    /\ r_in.backoff_factor = DefaultBackoffFactor
    /\ r_out.status = "raised"
    /\ r_out.calls = DefaultMaxRetries + 1
    /\ r_out.sleeps = <<200, 596, 1200>>

\* the entry is the empty string or consists of white space only
IsBlankEntry(url) == url.scheme = "" /\ url.netloc = "" /\ url.path = <<>>

\* C24: the output of normalize_urls has one URL for each entry of the raw
\* list that is neither empty nor blank, in the order of these entries
\* (duplicates included), each being what the entry alone is normalised to;
\* empty and blank entries yield nothing.
C24_Dropping ==
    n_out # None =>
        LET NotBlank(url) == ~IsBlankEntry(url)
            kept == SelectSeq(n_in.urls, NotBlank)
            base_url == extract_base_url(n_in.source_url)
        IN  /\ Len(n_out.urls) = Len(kept)
            /\ \A i \in 1..Len(kept) :
                 <<n_out.urls[i]>> = normalize_urls(<<kept[i]>>, base_url)

\* the i-th attempt for the URL parsed a result that fails the test of the
\* required fields, lines 460-467
RejectedForFields(i) == hist.seen[i].parsed /\ hist.seen[i].empty

\* the i-th attempt parsed a result that passes that test and fails the test
\* of relevance or the test of the tags, lines 469-477
RejectedForContent(i) ==
    /\ hist.seen[i].parsed
    /\ ~hist.seen[i].empty
    /\ ~hist.seen[i].relevant \/ ~hist.seen[i].tagged

\* C25: extract_news_content makes at most 3 attempts.  A result rejected
\* for an empty title or summary at attempt 1 or 2 is followed by a sleep of
\* 1 second and another attempt; at attempt 3 it ends the extraction with
\* None and no sleep.  A result rejected for is_relevant = false or for having
\* no valid tag ends the extraction with None at whatever attempt it comes:
\* no sleep and no oracle request follows it.  An article that is returned
\* is the result of the last attempt made.
C25_RejectionReasons ==
    /\ Len(hist.seen) <= ExtractMaxRetries
    /\ Len(hist.requests) = Len(hist.seen)
    /\ \A i \in 1..Len(hist.seen) :
         /\ (RejectedForFields(i) /\ i < ExtractMaxRetries) =>
                /\ Len(hist.sleeps) >= i
                /\ hist.sleeps[i] = 1
                /\ \/ i < Len(hist.seen)
                   \/ pc = "extract" /\ attempt = i
         /\ (RejectedForFields(i) /\ i = ExtractMaxRetries) =>
                /\ pc = "pace"
                /\ hist.ret = "absent"
                /\ Len(hist.sleeps) = i - 1
         /\ RejectedForContent(i) =>
                /\ i = Len(hist.seen)
                /\ pc = "pace"
                /\ hist.ret = "absent"
                /\ news_data = None
                /\ Len(hist.sleeps) = i - 1
    /\ hist.ret = "article" =>
           LET last == hist.seen[Len(hist.seen)]
           IN  last.parsed /\ ~last.empty /\ last.relevant /\ last.tagged

\* the first result had an empty field: a sleep of 1 second and a second
\* attempt, whose result is irrelevant and ends the extraction at once
C25_Witness ==
    /\ pc = "pace"
    /\ Len(hist.seen) = 2
    /\ RejectedForFields(1)
    /\ RejectedForContent(2)
    /\ ~hist.seen[2].relevant
    /\ hist.sleeps = <<1>>
    /\ Len(hist.requests) = 2
    /\ hist.ret = "absent"

C26_Step ==
    /\ pc # "idle" =>
         /\ sources' = sources
         /\ \A i \in 1..Len(sources) : sources[i] = Registry(i)
    /\ store' # store =>
         \E row \in BagToSet(store') :
             /\ store' = store (+) SetToBag({row})
             /\ row.url = new_urls[ui]
             /\ row.url # sources[si].url
             /\ \A j \in 1..Len(new_urls) : new_urls[j] # new_urls[ui] => row.url # new_urls[j]
             /\ row.language = Registry(si).language
             /\ row.source = Registry(si).source

\* C26: from the moment get_source_list returned to the end of the cycle no
\* step changes a source record: each is as the registry gave it, homepage
\* URL included, whatever was done for the article URLs.  A row that is
\* stored has the URL of the article being processed, which is neither the
\* homepage URL of the source nor a different URL of the list of new URLs,
\* and the language and the name the registry gave for the source.
C26_SourceUnchanged == [][C26_Step]_vars

\* two articles of one source are stored, each under its own URL, and the
\* record of the source still has the homepage URL
C26_Witness ==
    /\ pc = "pace"
    /\ ui = 2
    /\ new_urls = <<A1, A2>>
    /\ StoredUrls(store) = {A1, A2}
    /\ \A row \in BagToSet(store) : row.source = sources[si].source
    /\ sources[si] = Registry(si)
    /\ hist.saved # <<>>

====
